---- MODULE Spec2Model ----
(***************************************************************************)
(* A model of Catch2's TeamCity reporter with nested-section support       *)
(* (src/catch2/reporters/catch_reporter_teamcity.cpp).                     *)
(*                                                                         *)
(* A text is a sequence of items.  Every item is one character, written as *)
(* a one-character string; the only longer items are literal runs of the   *)
(* reporter's own wording ("expression failed", a source location, ...)    *)
(* that hold none of the characters escape() replaces and take no part in  *)
(* any comparison of names.                                                *)
(*                                                                         *)
(* A line of the output sink is a record [proto, verb, attrs]: a           *)
(* ##teamcity message (proto) with its verb and its attributes in wire     *)
(* order, or a plain diagnostic line.  The sink is unbounded: m_stream     *)
(* holds the lines the handler delivered last has appended, unflushed      *)
(* counts the lines written and not yet flushed, and openStarted,          *)
(* lastClosed and underflow are what a reader of the whole sink has made   *)
(* of the testStarted / testFinished messages so far, pairing them in the  *)
(* order written.                                                          *)
(***************************************************************************)
EXTENDS Naturals, Sequences, FiniteSets, TLC

VARIABLES
    \* ---- the reporter (TeamCityReporter and its base class) ----
    m_stream,                       \* lines the last handler appended to the sink
    unflushed,                      \* number of lines written and not flushed
    m_lastTestCaseName,
    m_lastTestCaseFullName,
    m_timerStack,
    m_sectionNameStack,
    m_headerPrintedForThisSection,
    m_sectionStack,                 \* StreamingReporterBase: open SectionInfos
    currentTestCaseInfo,            \* StreamingReporterBase: <<>> (null) or <<info>>
    configName,                     \* m_config->name()
    status,                         \* "running", or "aborted" once a handler died
    \* ---- the sink as read so far ----
    openStarted,                    \* flowIds of the testStarted not yet closed
    lastClosed,                     \* flowId of the testStarted closed last
    underflow,                      \* a testFinished came with no testStarted open
    \* ---- the event source ----
    phase,                          \* "idle", "run", "case", "done"
    openSections,                   \* names of the sections the event source has open
    wellFormed,                     \* the events so far follow the protocol of the run
    lastEvent,                      \* the event delivered last
    nCases, nSections, nAsserts, nStray,
    \* ---- application of the pure functions ----
    pureFn, pureArg, pureRes

vars == << m_stream, unflushed, m_lastTestCaseName, m_lastTestCaseFullName,
           m_timerStack, m_sectionNameStack, m_headerPrintedForThisSection,
           m_sectionStack, currentTestCaseInfo, configName, status,
           openStarted, lastClosed, underflow,
           phase, openSections, wellFormed, lastEvent,
           nCases, nSections, nAsserts, nStray, pureFn, pureArg, pureRes >>

\* The reporter's own state, its sink left out.
reporterState == << m_lastTestCaseName, m_lastTestCaseFullName,
                    m_timerStack, m_sectionNameStack,
                    m_headerPrintedForThisSection, m_sectionStack,
                    currentTestCaseInfo, configName, status >>

sinkVars == << m_stream, unflushed, openStarted, lastClosed, underflow >>

sourceVars == << phase, openSections, wellFormed, lastEvent,
                 nCases, nSections, nAsserts, nStray >>

pureVars == << pureFn, pureArg, pureRes >>

----------------------------------------------------------------------------
(* Bounds of the model *)

MaxCases == 2
MaxSections == 2
MaxAsserts == 1
MaxStray == 1
MaxLen == 4

----------------------------------------------------------------------------
(* Texts *)

\* The backtick character, which a TLA+ string literal cannot hold.
Backtick == "backtick"

Top(stack) == stack[Len(stack)]
Pop(stack) == SubSeq(stack, 1, Len(stack) - 1)

\* Catch::replaceInPlace for a one-character pattern: every occurrence of
\* replaceThis, left to right, becomes withThis; the inserted text is not
\* scanned again.  No occurrence of one character spans two halves of the
\* text, so the halves are replaced apart and joined in order.
RECURSIVE replaceInPlace(_, _, _)
replaceInPlace(str, replaceThis, withThis) ==
    IF str = <<>> THEN <<>>
    ELSE IF Len(str) = 1
         THEN (IF str[1] = replaceThis THEN withThis ELSE str)
    ELSE LET half == Len(str) \div 2
         IN  replaceInPlace(SubSeq(str, 1, half), replaceThis, withThis)
             \o replaceInPlace(SubSeq(str, half + 1, Len(str)),
                               replaceThis, withThis)

\* A variant of escape that replaces '|' last, after the other substitutions
\* have introduced their own '|'.
escape_pipeLast(str) ==
    replaceInPlace(
      replaceInPlace(
        replaceInPlace(
          replaceInPlace(
            replaceInPlace(
              replaceInPlace(str, "'", <<Backtick>>),
              "\n", <<"|", "n">>),
            "\r", <<"|", "r">>),
          "[", <<"|", "[">>),
        "]", <<"|", "]">>),
      "|", <<"|", "|">>)

\* A variant of escape that leaves the apostrophe alone.
escape_keepQuote(str) ==
    replaceInPlace(
      replaceInPlace(
        replaceInPlace(
          replaceInPlace(
            replaceInPlace(str, "|", <<"|", "|">>),
            "\n", <<"|", "n">>),
          "\r", <<"|", "r">>),
        "[", <<"|", "[">>),
      "]", <<"|", "]">>)

\* escape(): six replaceInPlace passes over the whole text, in this order.
escape(str) ==
    replaceInPlace(
      replaceInPlace(
        replaceInPlace(
          replaceInPlace(
            replaceInPlace(
              replaceInPlace(str, "|", <<"|", "|">>),
              "'", <<Backtick>>),
            "\n", <<"|", "n">>),
          "\r", <<"|", "r">>),
        "[", <<"|", "[">>),
      "]", <<"|", "]">>)

\* std::string::find("::", pos): the first index i >= pos (1-based) at which
\* "::" starts, or 0 (npos).
RECURSIVE findMarker(_, _)
findMarker(str, pos) ==
    IF pos + 1 > Len(str) THEN 0
    ELSE IF str[pos] = ":" /\ str[pos + 1] = ":" THEN pos
    ELSE findMarker(str, pos + 1)

\* A variant of normalizeFrom that advances two positions past a replaced
\* marker (pos += 2).
RECURSIVE normalizeFrom_skipOne(_, _)
normalizeFrom_skipOne(str, pos) ==
    IF pos = 0 THEN str
    ELSE LET replaced == SubSeq(str, 1, pos - 1) \o <<".">>
                         \o SubSeq(str, pos + 2, Len(str))
         IN  normalizeFrom_skipOne(replaced, findMarker(replaced, pos + 2))

\* The loop of normalizeNamespaceMarkers from position pos on:
\* str.replace(pos, 2, "."); pos += 1; pos = str.find("::", pos).
RECURSIVE normalizeFrom(_, _)
normalizeFrom(str, pos) ==
    IF pos = 0 THEN str
    ELSE LET replaced == SubSeq(str, 1, pos - 1) \o <<".">>
                         \o SubSeq(str, pos + 2, Len(str))
         IN  normalizeFrom(replaced, findMarker(replaced, pos + 1))

\* A variant of normalizeNamespaceMarkers that turns every single colon into
\* a dot.
normalizeNamespaceMarkers_everyColon(str) == replaceInPlace(str, ":", <<".">>)

normalizeNamespaceMarkers(str) == normalizeFrom(str, findMarker(str, 1))

\* A variant of fileNameTag that passes over a tag that is "#" alone.
RECURSIVE fileNameTag_skipEmpty(_)
fileNameTag_skipEmpty(tags) ==
    IF tags = <<>> THEN <<>>
    ELSE IF Len(Head(tags)) > 1 /\ Head(tags)[1] = "#"
         THEN SubSeq(Head(tags), 2, Len(Head(tags)))
         ELSE fileNameTag_skipEmpty(Tail(tags))

\* fileNameTag(): the text after '#' of the first tag that starts with '#'.
RECURSIVE fileNameTag(_)
fileNameTag(tags) ==
    IF tags = <<>> THEN <<>>
    ELSE IF Len(Head(tags)) > 0 /\ Head(tags)[1] = "#"
         THEN SubSeq(Head(tags), 2, Len(Head(tags)))
         ELSE fileNameTag(Tail(tags))

\* className with all spaces removed (std::remove + erase).
removeSpaces(className) == SelectSeq(className, LAMBDA c : c # " ")

\* The class name part computed by testCaseStarting.
deriveClassName(testInfo, cfgName) ==
    LET stripped == removeSpaces(testInfo.className)
        tagged   == IF stripped = <<>> THEN fileNameTag(testInfo.tags)
                    ELSE stripped
        named    == IF tagged = <<>>
                    THEN <<"g", "l", "o", "b", "a", "l", ".">>
                    ELSE tagged
        prefixed == IF cfgName # <<>>
                    THEN cfgName \o <<":", " ">> \o cfgName \o <<".">> \o named
                    ELSE named
    IN  normalizeNamespaceMarkers(prefixed)

fullTestCaseName(testInfo, cfgName) ==
    escape(deriveClassName(testInfo, cfgName) \o escape(testInfo.name))

----------------------------------------------------------------------------
(* Lines of the sink *)

Message(verb, attrs) == [proto |-> TRUE, verb |-> verb, attrs |-> attrs]
Diagnostic(label, text) ==
    [proto |-> FALSE, verb |-> label, attrs |-> << <<"text", text>> >>]

HasAttr(line, key) == \E i \in 1..Len(line.attrs) : line.attrs[i][1] = key
Attr(line, key) ==
    line.attrs[CHOOSE i \in 1..Len(line.attrs) : line.attrs[i][1] = key][2]

\* The elapsed milliseconds a Timer reports: a number, no text of the run.
ElapsedMs == <<"0">>
NewTimer == "timer"

----------------------------------------------------------------------------
(* Inputs of the events *)

RunName == <<"r", "'">>
ConfigNames == { <<>> }

\* TestCaseInfo: name, className, tags (their original text), okToFail().
TestCases ==
    { [name |-> <<"a">>, className |-> <<>>, tags |-> <<>>,
       okToFail |-> FALSE],
      [name |-> <<"[", "'">>, className |-> <<" ">>,
       tags |-> << <<"t">>, <<"#", "N", ":", ":", "f", "]">> >>,
       okToFail |-> TRUE] }

SectionNames == { <<"a">>, <<"[", "'">> }

SectionInfo(name) == [name |-> name, lineInfo |-> <<"file.cpp:1">>]

\* What the captured standard output / standard error of a test case may be.
Captured == { <<>>, <<"o", "'", "\r">> }

ResultTypes ==
    { "Unknown", "Ok", "Info", "Warning", "ExplicitSkip", "FailureBit",
      "ExpressionFailed", "ExplicitFailure", "Exception", "ThrewException",
      "DidntThrowException", "FatalErrorCondition" }

\* Catch::isOk(resultType): the result type does not carry the failure bit
\* (ResultWas::Unknown is -1 and carries every bit).
isOk(resultType) == resultType \in { "Ok", "Info", "Warning", "ExplicitSkip" }

\* An AssertionStats with its AssertionResult: what getResultType(), isOk(),
\* getSourceInfo(), hasExpression(), ... answer, and the info messages.
AssertionStats(resultType, hasExpression, infoMessages) ==
    [resultType |-> resultType,
     isOk |-> isOk(resultType),
     sourceInfo |-> <<"file.cpp:2">>,
     hasExpression |-> hasExpression,
     expressionInMacro |-> <<"CHECK( x == ", "'", "y", "'", " )">>,
     expandedExpression |-> <<"1 == 2", "\n", "|">>,
     infoMessages |-> infoMessages]

AssertionInputs ==
    { AssertionStats("ExpressionFailed", TRUE, << <<"m", "'">>, <<"]">> >>),
      AssertionStats("ExplicitSkip", FALSE, << <<"why">> >>),
      AssertionStats("Ok", TRUE, <<>>),
      AssertionStats("Unknown", FALSE, <<>>),
      \* a result whose isOk() disowns its type: the case the switch of
      \* assertionEnded guards against
      [AssertionStats("Warning", FALSE, <<>>) EXCEPT !.isOk = FALSE] }

\* What a read of the front of an empty m_sectionStack may yield when the
\* handler survives it.
GarbageLineInfos == { <<"?", "\n">> }


----------------------------------------------------------------------------
(* The sink *)

IsMessage(line, verbs) == line.proto /\ line.verb \in verbs

\* The testStarted messages open after lines, given those open before them:
\* a testStarted opens, a testFinished closes the one opened last.
RECURSIVE openAfter(_, _)
openAfter(open, lines) ==
    IF lines = <<>> THEN open
    ELSE IF IsMessage(Head(lines), {"testStarted"})
         THEN openAfter(Append(open, Attr(Head(lines), "flowId")), Tail(lines))
    ELSE IF IsMessage(Head(lines), {"testFinished"})
         THEN openAfter(Pop(open), Tail(lines))
    ELSE openAfter(open, Tail(lines))

\* The flowId of the testStarted that the last testFinished of lines closes.
RECURSIVE closedAfter(_, _, _)
closedAfter(open, closed, lines) ==
    IF lines = <<>> THEN closed
    ELSE IF IsMessage(Head(lines), {"testFinished"}) /\ open # <<>>
         THEN closedAfter(Pop(open), Top(open), Tail(lines))
    ELSE closedAfter(openAfter(open, <<Head(lines)>>), closed, Tail(lines))

\* Whether a testFinished of lines finds no testStarted open.
RECURSIVE underflowAfter(_, _)
underflowAfter(open, lines) ==
    IF lines = <<>> THEN FALSE
    ELSE \/ IsMessage(Head(lines), {"testFinished"}) /\ open = <<>>
         \/ underflowAfter(openAfter(open, <<Head(lines)>>), Tail(lines))

\* m_stream << lines, without a flush.
write(lines) ==
    /\ m_stream' = lines
    /\ openStarted' = openAfter(openStarted, lines)
    /\ lastClosed' = closedAfter(openStarted, lastClosed, lines)
    /\ underflow' = (underflow \/ underflowAfter(openStarted, lines))

----------------------------------------------------------------------------
(* The initial state: a freshly constructed reporter, no event delivered *)

NoEvent == [kind |-> "none", arg |-> <<>>]

InitReporter ==
    /\ m_stream = <<>>
    /\ unflushed = 0
    /\ m_lastTestCaseName = <<>>
    /\ m_lastTestCaseFullName = <<>>
    /\ m_timerStack = <<>>
    /\ m_sectionNameStack = <<>>
    /\ m_headerPrintedForThisSection = FALSE
    /\ m_sectionStack = <<>>
    /\ currentTestCaseInfo = <<>>
    /\ status = "running"
    /\ openStarted = <<>>
    /\ lastClosed = <<>>
    /\ underflow = FALSE

InitSource ==
    /\ phase = "idle"
    /\ openSections = <<>>
    /\ wellFormed = TRUE
    /\ lastEvent = NoEvent
    /\ nCases = 0
    /\ nSections = 0
    /\ nAsserts = 0
    /\ nStray = 0

Init ==
    /\ InitReporter
    /\ InitSource
    /\ configName \in ConfigNames
    /\ pureFn = "none"
    /\ pureArg = <<>>
    /\ pureRes = <<>>

----------------------------------------------------------------------------
(* The handlers *)

Event(kind, arg) == [kind |-> kind, arg |-> arg]

testRunStarting(runName) ==
    /\ status = "running" /\ phase = "idle"
    /\ write(<< Message("testSuiteStarted", << <<"name", escape(runName)>> >>) >>)
    /\ unflushed' = unflushed + 1
    /\ phase' = "run"
    /\ lastEvent' = Event("testRunStarting", runName)
    /\ UNCHANGED << reporterState, openSections, wellFormed,
                    nCases, nSections, nAsserts, nStray, pureVars >>

testRunEnded(runName) ==
    /\ status = "running" /\ phase = "run"
    /\ write(<< Message("testSuiteFinished", << <<"name", escape(runName)>> >>) >>)
    /\ unflushed' = unflushed + 1
    /\ phase' = "done"
    /\ lastEvent' = Event("testRunEnded", runName)
    /\ UNCHANGED << reporterState, openSections, wellFormed,
                    nCases, nSections, nAsserts, nStray, pureVars >>

testCaseStarting(testInfo) ==
    /\ status = "running" /\ phase = "run" /\ nCases < MaxCases
    /\ currentTestCaseInfo' = <<testInfo>>
    /\ m_lastTestCaseName' = escape(testInfo.name)
    /\ m_lastTestCaseFullName' = fullTestCaseName(testInfo, configName)
    /\ write(<< Diagnostic("testCaseStarting:",
                    m_lastTestCaseName' \o <<" FullName:">>
                    \o m_lastTestCaseFullName'),
                Message("testStarted",
                    << <<"name", m_lastTestCaseFullName'>>,
                       <<"flowId", m_lastTestCaseFullName'>> >>) >>)
    /\ unflushed' = 0
    /\ phase' = "case"
    /\ openSections' = <<>>
    /\ nCases' = nCases + 1
    /\ lastEvent' = Event("testCaseStarting", testInfo)
    /\ UNCHANGED << m_timerStack, m_sectionNameStack,
                    m_headerPrintedForThisSection, m_sectionStack,
                    configName, status, wellFormed,
                    nSections, nAsserts, nStray, pureVars >>

\* The testStdOut / testStdErr message of testCaseEnded, if the captured text
\* is not empty.
capturedMessage(verb, captured) ==
    IF captured # <<>>
    THEN << Message(verb,
              << <<"name", m_lastTestCaseFullName>>,
                 <<"out", escape(captured)>>,
                 <<"flowId", m_lastTestCaseFullName>> >>) >>
    ELSE <<>>

\* A variant of testCaseEndedLines that writes testFinished before the
\* captured output.
testCaseEndedLines_finishedFirst(testInfo, stdOut, stdErr) ==
    << Diagnostic("testCaseEnded:",
           escape(testInfo.name) \o <<" FullName:">> \o m_lastTestCaseFullName),
       Message("testFinished",
           << <<"name", m_lastTestCaseFullName>>,
              <<"duration", ElapsedMs>>,
              <<"flowId", m_lastTestCaseFullName>> >>) >>
    \o capturedMessage("testStdOut", stdOut)
    \o capturedMessage("testStdErr", stdErr)

testCaseEndedLines(testInfo, stdOut, stdErr) ==
    << Diagnostic("testCaseEnded:",
           escape(testInfo.name) \o <<" FullName:">> \o m_lastTestCaseFullName) >>
    \o capturedMessage("testStdOut", stdOut)
    \o capturedMessage("testStdErr", stdErr)
    \o << Message("testFinished",
           << <<"name", m_lastTestCaseFullName>>,
              <<"duration", ElapsedMs>>,
              <<"flowId", m_lastTestCaseFullName>> >>) >>

TestCaseStats(testInfo, stdOut, stdErr) ==
    [testInfo |-> testInfo, stdOut |-> stdOut, stdErr |-> stdErr]

testCaseEnded(stdOut, stdErr) ==
    /\ status = "running" /\ phase = "case"
    /\ write(testCaseEndedLines(currentTestCaseInfo[1], stdOut, stdErr))
    /\ unflushed' = 0
    /\ currentTestCaseInfo' = <<>>
    /\ phase' = "run"
    /\ wellFormed' = (wellFormed /\ openSections = <<>>)
    /\ lastEvent' = Event("testCaseEnded",
                          TestCaseStats(currentTestCaseInfo[1], stdOut, stdErr))
    /\ UNCHANGED << m_lastTestCaseName, m_lastTestCaseFullName,
                    m_timerStack, m_sectionNameStack,
                    m_headerPrintedForThisSection, m_sectionStack,
                    configName, status, openSections,
                    nCases, nSections, nAsserts, nStray, pureVars >>

\* The name comparison that tells the implicit section of a TEST_CASE from a
\* SECTION: the stored (escaped) test case name against the raw section name.
isTestCaseSection(name) == m_lastTestCaseName = name

\* The correlation name sectionStarting computes and pushes.
sectionTestName(name) ==
    IF Len(m_sectionNameStack) > 0
    THEN escape(Top(m_sectionNameStack) \o <<"/">> \o name)
    ELSE escape(m_lastTestCaseFullName \o <<"/">> \o name)

sectionStarting(name) ==
    /\ status = "running" /\ phase = "case" /\ nSections < MaxSections
    /\ openSections' = Append(openSections, name)
    /\ nSections' = nSections + 1
    /\ lastEvent' = Event("sectionStarting", name)
    /\ UNCHANGED << m_lastTestCaseName, m_lastTestCaseFullName,
                    currentTestCaseInfo, configName, status,
                    phase, wellFormed, nCases, nAsserts, nStray, pureVars >>
    /\ \/ /\ isTestCaseSection(name)
          /\ write(<<>>)
          /\ UNCHANGED << unflushed, m_timerStack, m_sectionNameStack,
                          m_headerPrintedForThisSection, m_sectionStack >>
       \/ /\ ~isTestCaseSection(name)
          /\ m_timerStack' = Append(m_timerStack, NewTimer)
          /\ m_headerPrintedForThisSection' = TRUE
          /\ m_sectionStack' = Append(m_sectionStack, SectionInfo(name))
          /\ m_sectionNameStack' =
                 Append(m_sectionNameStack, sectionTestName(name))
          /\ write(<< Diagnostic("sectionStarting:", Top(m_sectionNameStack')),
                      Message("testStarted",
                          << <<"name", Top(m_sectionNameStack')>>,
                             <<"flowId", Top(m_sectionNameStack')>> >>) >>)
          /\ unflushed' = 0

\* The name sectionEnded puts into its testFinished message.
sectionEndedName == escape(Top(m_sectionNameStack))

\* A variant of sectionEndedStacks that leaves the timer pushed.
sectionEndedStacks_keepTimer ==
    /\ m_timerStack' = m_timerStack
    /\ m_sectionNameStack' = Pop(m_sectionNameStack)

\* A variant of sectionEndedStacks that leaves the correlation name pushed.
sectionEndedStacks_keepName ==
    /\ m_timerStack' = Pop(m_timerStack)
    /\ m_sectionNameStack' = m_sectionNameStack

\* The pops at the end of sectionEnded.
sectionEndedStacks ==
    /\ m_timerStack' = Pop(m_timerStack)
    /\ m_sectionNameStack' = Pop(m_sectionNameStack)

sectionEnded(name) ==
    /\ status = "running" /\ phase = "case"
    /\ \/ openSections # <<>> /\ name = Top(openSections)
       \/ openSections = <<>> /\ nStray < MaxStray
    /\ openSections' = Pop(openSections)
    /\ wellFormed' = (wellFormed /\ openSections # <<>>)
    /\ nStray' = IF openSections = <<>> THEN nStray + 1 ELSE nStray
    /\ lastEvent' = Event("sectionEnded", name)
    /\ UNCHANGED << m_lastTestCaseName, m_lastTestCaseFullName,
                    m_headerPrintedForThisSection,
                    currentTestCaseInfo, configName,
                    phase, nCases, nSections, nAsserts, pureVars >>
    /\ \/ /\ isTestCaseSection(name)
          /\ write(<<>>)
          /\ UNCHANGED << unflushed, m_timerStack, m_sectionNameStack,
                          m_sectionStack, status >>
       \/ \* pop_back() of the empty m_sectionStack or top() of the empty
          \* m_timerStack: undefined, the handler may die here
          /\ ~isTestCaseSection(name)
          /\ m_sectionStack = <<>> \/ m_timerStack = <<>>
          /\ status' = "aborted"
          /\ write(<<>>)
          /\ UNCHANGED << unflushed, m_timerStack, m_sectionNameStack,
                          m_sectionStack >>
       \/ \* ... or it survives with a meaningless timer and reaches the guard
          /\ ~isTestCaseSection(name)
          /\ m_sectionNameStack = <<>>
          /\ write(<< Diagnostic("something wrong!!!", <<>>) >>)
          /\ unflushed' = 0
          /\ m_sectionStack' = Pop(m_sectionStack)
          /\ UNCHANGED << m_timerStack, m_sectionNameStack, status >>
       \/ /\ ~isTestCaseSection(name)
          /\ m_sectionNameStack # <<>>
          /\ m_sectionStack' = Pop(m_sectionStack)
          /\ LET testname == sectionEndedName
             IN  write(<< Diagnostic("sectionEnded:", testname),
                          Message("testFinished",
                              << <<"name", testname>>,
                                 <<"duration", ElapsedMs>>,
                                 <<"flowId", testname>> >>) >>)
          /\ unflushed' = 0
          /\ sectionEndedStacks
          /\ UNCHANGED status

\* printSectionHeader, past its assert, with lineInfo the location read from
\* the front of m_sectionStack.
printSectionHeader(lineInfo) ==
    LET RECURSIVE headerStrings(_)
        headerStrings(sections) ==
            IF sections = <<>> THEN <<>>
            ELSE Head(sections).name \o <<"\n">> \o headerStrings(Tail(sections))
    IN  (IF Len(m_sectionStack) > 1
         THEN <<"--------", "\n">> \o headerStrings(Tail(m_sectionStack))
              \o <<"--------", "\n">>
         ELSE <<>>)
        \o lineInfo \o <<"\n">> \o <<"........", "\n", "\n">>

\* A variant of SupportedResultTypes in which the success kinds fall out of
\* the switch instead of raising the internal error.
SupportedResultTypes_successFallsThrough ==
    { "ExpressionFailed", "ThrewException", "FatalErrorCondition",
      "DidntThrowException", "ExplicitFailure", "ExplicitSkip",
      "Ok", "Info", "Warning" }

\* The result types the switch of assertionEnded has wording for.
SupportedResultTypes ==
    { "ExpressionFailed", "ThrewException", "FatalErrorCondition",
      "DidntThrowException", "ExplicitFailure", "ExplicitSkip" }

resultWording(resultType) ==
    CASE resultType = "ExpressionFailed" -> <<"expression failed">>
      [] resultType = "ThrewException" -> <<"unexpected exception">>
      [] resultType = "FatalErrorCondition" -> <<"fatal error condition">>
      [] resultType = "DidntThrowException" ->
             <<"no exception was thrown where one was expected">>
      [] resultType = "ExplicitFailure" -> <<"explicit failure">>
      [] resultType = "ExplicitSkip" -> <<"explicit skip">>
      [] OTHER -> <<>>

RECURSIVE quotedMessages(_)
quotedMessages(infoMessages) ==
    IF infoMessages = <<>> THEN <<>>
    ELSE <<"\n", "  \"">> \o Head(infoMessages) \o <<"\"">>
         \o quotedMessages(Tail(infoMessages))

\* The text of msg when assertionEnded reaches line 141.
assertionMsg(stats, header) ==
    header \o stats.sourceInfo \o <<"\n">> \o resultWording(stats.resultType)
    \o (IF Len(stats.infoMessages) = 1 THEN <<" with message:">> ELSE <<>>)
    \o (IF Len(stats.infoMessages) > 1 THEN <<" with messages:">> ELSE <<>>)
    \o quotedMessages(stats.infoMessages)

failedDetail(stats) ==
    IF stats.hasExpression
    THEN stats.expressionInMacro \o <<"\n">> \o stats.expandedExpression
    ELSE <<>>

IgnoreNote ==
    <<"- failure ignore as test marked as ", "'", "ok to fail", "'", "\n">>

\* A variant of assertionFlowId that always takes the test case's name.
assertionFlowId_testCase == m_lastTestCaseFullName

\* The flowId of the message of assertionEnded (line 142).
assertionFlowId ==
    IF m_sectionNameStack = <<>> THEN m_lastTestCaseFullName
    ELSE Top(m_sectionNameStack)

\* The lines assertionEnded writes for a qualifying assertion (lines 141-166).
assertionLines(stats, msg) ==
    LET name == escape(currentTestCaseInfo[1].name)
        flowId == assertionFlowId
    IN  << Diagnostic("result failed:", escape(msg)) >> \o
        IF stats.resultType = "ExplicitSkip"
        THEN << Diagnostic("ResultWas::ExplicitSkip", <<>>),
                Message("testIgnored",
                    << <<"name", name>>,
                       <<"message", escape(msg)>>,
                       <<"flowId", flowId>> >>) >>
        ELSE IF currentTestCaseInfo[1].okToFail
        THEN << Diagnostic("ResultWas::okToFail", <<>>),
                Message("testIgnored",
                    << <<"name", name>>,
                       <<"message", escape(msg \o IgnoreNote)>>,
                       <<"flowId", flowId>> >>) >>
        ELSE << Diagnostic("ResultWas::testFailed", <<>>),
                Message("testFailed",
                    << <<"name", name>>,
                       <<"message", escape(msg)>>,
                       <<"details", escape(failedDetail(stats))>>,
                       <<"flowId", flowId>> >>) >>

\* Whether assertionEnded acts on the assertion (line 88).
qualifies(stats) ==
    ~stats.isOk \/ stats.resultType = "ExplicitSkip"

\* The source locations printSectionHeader may read from m_sectionStack.front().
headerLineInfos ==
    IF m_sectionStack = <<>> THEN GarbageLineInfos
    ELSE { m_sectionStack[1].lineInfo }

assertionEnded(stats) ==
    /\ status = "running" /\ phase = "case" /\ nAsserts < MaxAsserts
    /\ nAsserts' = nAsserts + 1
    /\ lastEvent' = Event("assertionEnded", stats)
    /\ UNCHANGED << m_lastTestCaseName, m_lastTestCaseFullName,
                    m_timerStack, m_sectionNameStack, m_sectionStack,
                    currentTestCaseInfo, configName,
                    phase, openSections, wellFormed,
                    nCases, nSections, nStray, pureVars >>
    /\ \/ /\ ~qualifies(stats)
          /\ write(<<>>)
          /\ unflushed' = 0
          /\ UNCHANGED << m_headerPrintedForThisSection, status >>
       \/ \* printSectionHeader with an empty m_sectionStack: the assert
          \* fails, or front() of the empty vector kills the handler
          /\ qualifies(stats)
          /\ ~m_headerPrintedForThisSection
          /\ m_sectionStack = <<>>
          /\ status' = "aborted"
          /\ write(<<>>)
          /\ UNCHANGED << unflushed, m_headerPrintedForThisSection >>
       \/ \* CATCH_ERROR: no wording for this result type
          /\ qualifies(stats)
          /\ stats.resultType \notin SupportedResultTypes
          /\ m_headerPrintedForThisSection' = TRUE
          /\ status' = "aborted"
          /\ write(<<>>)
          /\ UNCHANGED unflushed
       \/ /\ qualifies(stats)
          /\ stats.resultType \in SupportedResultTypes
          /\ \E lineInfo \in headerLineInfos :
               write(assertionLines(stats,
                         assertionMsg(stats,
                             IF ~m_headerPrintedForThisSection
                             THEN printSectionHeader(lineInfo)
                             ELSE <<>>)))
          /\ m_headerPrintedForThisSection' = TRUE
          /\ unflushed' = 0
          /\ UNCHANGED status

----------------------------------------------------------------------------
(* The run: the event source delivers one event at a time *)

Next ==
    \/ testRunStarting(RunName)
    \/ testRunEnded(RunName)
    \/ \E testInfo \in TestCases : testCaseStarting(testInfo)
    \/ \E stdOut \in Captured, stdErr \in Captured : testCaseEnded(stdOut, stdErr)
    \/ \E name \in SectionNames : sectionStarting(name)
    \/ \E name \in SectionNames : sectionEnded(name)
    \/ \E stats \in AssertionInputs : assertionEnded(stats)

Spec == Init /\ [][Next]_vars

----------------------------------------------------------------------------
(* The pure functions, applied to every text up to MaxLen characters *)

Alphabet == { "a", ":", "|", "'", "\n", "\r", "[", "]" }

Texts == UNION { [1..n -> Alphabet] : n \in 0..MaxLen }

\* Qualified names as a class name or a file-name tag may hold them.
NamespaceExamples ==
    { <<"A", ":", ":", "B", ":", ":", "C">>,
      <<"A", ":", ":", ":", "B">> }

InitPure ==
    /\ InitReporter
    /\ InitSource
    /\ configName = <<>>
    /\ pureFn = "none"
    /\ pureArg \in Texts \cup NamespaceExamples
    /\ pureRes = <<>>

applyEscape ==
    /\ pureFn = "none"
    /\ pureFn' = "escape"
    /\ pureRes' = escape(pureArg)
    /\ UNCHANGED << pureArg, reporterState, sinkVars, sourceVars >>

applyNormalizeNamespaceMarkers ==
    /\ pureFn = "none"
    /\ pureFn' = "normalizeNamespaceMarkers"
    /\ pureRes' = normalizeNamespaceMarkers(pureArg)
    /\ UNCHANGED << pureArg, reporterState, sinkVars, sourceVars >>

NextPure == applyEscape \/ applyNormalizeNamespaceMarkers

SpecPure == InitPure /\ [][NextPure]_vars

----------------------------------------------------------------------------
(* The naming of test cases: runs of test cases only, under every           *)
(* configuration name                                                       *)

NamedConfigNames == { <<>>, <<"c">>, <<"c", ":", ":", "|">> }

NamedTestCases ==
    { [name |-> name, className |-> className, tags |-> tags,
       okToFail |-> FALSE] :
        name \in { <<"a">>, <<"[", "'">>, <<":", ":">> },
        className \in { <<>>, <<" ">>, <<"N", " ", ":", ":", "c">> },
        tags \in { <<>>,
                   << <<"t">>, <<"#">> >>,
                   << <<"#">>, <<"#", "x">> >>,
                   << <<"t">>, <<"#", "f", ":", ":", "g", "]">>, <<"#", "h">> >> } }

InitNames ==
    /\ InitReporter
    /\ InitSource
    /\ configName \in NamedConfigNames
    /\ pureFn = "none"
    /\ pureArg = <<>>
    /\ pureRes = <<>>

NextNames ==
    \/ testRunStarting(RunName)
    \/ \E testInfo \in NamedTestCases : testCaseStarting(testInfo)
    \/ testCaseEnded(<<>>, <<>>)

SpecNames == InitNames /\ [][NextNames]_vars

----------------------------------------------------------------------------
(* Reading the lines of a handler *)

\* The ##teamcity messages among lines, in order.
Messages(lines) == SelectSeq(lines, LAMBDA l : l.proto)

RECURSIVE Verbs(_)
Verbs(lines) ==
    IF lines = <<>> THEN <<>> ELSE <<Head(lines).verb>> \o Verbs(Tail(lines))

\* The last line the handler has written.
LastLine == m_stream[Len(m_stream)]

\* The sections the event source has open, the implicit ones left out.
openProperSections ==
    SelectSeq(openSections, LAMBDA name : name # m_lastTestCaseName)

----------------------------------------------------------------------------
(* The claims *)

\* C1: while the events are well formed, the testStarted / testFinished
\* messages are bracketed as the sections are nested: no testFinished is
\* written without an open testStarted; inside a test case the testStarted
\* messages still open are, outermost first, the test case's and those of
\* the sections open in the event source; and outside a test case, so after
\* testCaseEnded, none is open, which with the first part says that as many
\* testFinished as testStarted messages have been written.
C1_Bracketed ==
    wellFormed =>
        /\ ~underflow
        /\ phase = "case" =>
               /\ openStarted = <<m_lastTestCaseFullName>> \o m_sectionNameStack
               /\ Len(m_sectionNameStack) = Len(openProperSections)
        /\ phase # "case" => openStarted = <<>>

\* The inner of two nested sections of a well-formed test case has ended:
\* its testFinished has closed its own testStarted, and the testStarted of
\* the test case and of the outer section remain open.
C1_Witness ==
    /\ wellFormed
    /\ lastEvent.kind = "sectionEnded"
    /\ nCases = 1
    /\ nSections = 2
    /\ Len(openSections) = 1
    /\ Len(openStarted) = 2
    /\ lastClosed \notin { openStarted[1], openStarted[2], <<>> }
    /\ IsMessage(LastLine, {"testFinished"})

\* C2: when a section S that lies directly in a test case of full name F,
\* and whose name is not the test case's, has ended, the flowId of its
\* testStarted message and the flowId of its testFinished message both are
\* escape(F + "/" + escape(S)).
C2_SectionFlowId ==
    (/\ wellFormed
     /\ status = "running"
     /\ lastEvent.kind = "sectionEnded"
     /\ openSections = <<>>
     /\ lastEvent.arg # currentTestCaseInfo[1].name) =>
        LET expected == escape(openStarted[1] \o <<"/">>
                               \o escape(lastEvent.arg))
        IN  /\ Len(m_stream) > 0
            /\ IsMessage(LastLine, {"testFinished"})
            /\ Attr(LastLine, "flowId") = expected
            /\ lastClosed = expected

\* C3: a sectionStarting or sectionEnded event whose section name is the
\* name of the enclosing test case changes no state of the reporter and
\* writes nothing, whatever characters the name holds.
C3_ImplicitSectionSuppressed ==
    [][ (/\ lastEvent'.kind \in {"sectionStarting", "sectionEnded"}
         /\ lastEvent'.arg = currentTestCaseInfo[1].name)
        => /\ UNCHANGED reporterState
           /\ m_stream' = <<>> ]_vars

\* C4: every testFailed or testIgnored message of assertionEnded carries as
\* flowId the top of the correlation-name stack when a section is open, and
\* the test case's full name when none is; while the events are well formed
\* that is the flowId of the testStarted message written last among those
\* not yet closed: the innermost open section's, or else the test case's.
C4_AssertionFlowId ==
    \A i \in 1..Len(m_stream) :
        (lastEvent.kind = "assertionEnded"
         /\ IsMessage(m_stream[i], {"testFailed", "testIgnored"})) =>
            /\ Attr(m_stream[i], "flowId") =
                   IF m_sectionNameStack # <<>> THEN Top(m_sectionNameStack)
                   ELSE m_lastTestCaseFullName
            /\ wellFormed =>
                   /\ openStarted # <<>>
                   /\ Attr(m_stream[i], "flowId") = Top(openStarted)

\* An assertion has failed with two sections nested, and been reported.
C4_Witness ==
    /\ wellFormed
    /\ lastEvent.kind = "assertionEnded"
    /\ Len(m_sectionNameStack) = 2
    /\ Len(openStarted) = 3
    /\ Len(m_stream) > 0
    /\ IsMessage(LastLine, {"testFailed"})
    /\ Attr(LastLine, "flowId") # openStarted[1]

\* C5: a sectionEnded event, for a name that is not the test case's, that
\* arrives when no section is open leaves the correlation-name stack as it
\* is, writes the 'something wrong!!!' line and no testFinished message, and
\* returns normally.
C5_StrayEndIsHarmless ==
    [][ (/\ lastEvent'.kind = "sectionEnded"
         /\ lastEvent'.arg # currentTestCaseInfo[1].name
         /\ m_sectionNameStack = <<>>)
        => /\ m_sectionNameStack' = m_sectionNameStack
           /\ m_stream' = << Diagnostic("something wrong!!!", <<>>) >>
           /\ status' = "running" ]_vars

\* C6: after every handler that writes to the sink returns, the sink has
\* been flushed: no line written by the handler remains unflushed.
C6_FlushedAfterEveryHandler ==
    status = "running" => unflushed = 0

\* C7: testCaseEnded writes, in this order, a testStdOut message iff the
\* captured standard output is not empty, a testStdErr message iff the
\* captured standard error is not empty, and then exactly one testFinished
\* message; all of them carry the test case's full name as name and as
\* flowId, which in a well-formed run is the flowId of the testStarted
\* message that this testFinished closes.
C7_TestCaseEndedOrder ==
    lastEvent.kind = "testCaseEnded" =>
        LET written == Messages(m_stream)
            stats == lastEvent.arg
            fullName == fullTestCaseName(stats.testInfo, configName)
        IN  /\ Verbs(written) =
                   (IF stats.stdOut # <<>> THEN <<"testStdOut">> ELSE <<>>)
                   \o (IF stats.stdErr # <<>> THEN <<"testStdErr">> ELSE <<>>)
                   \o <<"testFinished">>
            /\ \A i \in 1..Len(written) :
                   /\ Attr(written[i], "name") = fullName
                   /\ Attr(written[i], "flowId") = fullName
            /\ wellFormed => lastClosed = fullName

\* A test case has ended with captured standard output and standard error.
C7_Witness ==
    /\ lastEvent.kind = "testCaseEnded"
    /\ lastEvent.arg.stdOut # <<>>
    /\ lastEvent.arg.stdErr # <<>>
    /\ Verbs(Messages(m_stream)) = <<"testStdOut", "testStdErr", "testFinished">>

\* The message assertionEnded is to write for a qualifying assertion:
\* testIgnored for an explicit skip, else testIgnored if the test case is
\* allowed to fail, else testFailed.
expectedAssertionVerb(stats, testInfo) ==
    IF stats.resultType = "ExplicitSkip" THEN "testIgnored"
    ELSE IF testInfo.okToFail THEN "testIgnored"
    ELSE "testFailed"

\* text ends with suffix.
EndsWith(text, suffix) ==
    /\ Len(text) >= Len(suffix)
    /\ SubSeq(text, Len(text) - Len(suffix) + 1, Len(text)) = suffix

\* C8: for every qualifying assertion (not ok, or an explicit skip) of a
\* supported result type, assertionEnded writes exactly one ##teamcity
\* message: testIgnored for an explicit skip, else testIgnored with the
\* ignore note appended if the test case is allowed to fail, else testFailed
\* with a details attribute; for any other assertion it writes no message and
\* changes no state of the reporter.
C8_OneMessagePerAssertion ==
    [][ lastEvent'.kind = "assertionEnded" =>
          LET stats == lastEvent'.arg
              testInfo == currentTestCaseInfo[1]
              written == Messages(m_stream')
          IN  /\ (qualifies(stats)
                  /\ stats.resultType \in SupportedResultTypes) =>
                    /\ Len(written) = 1
                    /\ written[1].verb = expectedAssertionVerb(stats, testInfo)
                    /\ written[1].verb = "testFailed" =>
                           HasAttr(written[1], "details")
                    /\ (stats.resultType # "ExplicitSkip"
                        /\ testInfo.okToFail) =>
                           EndsWith(Attr(written[1], "message"),
                                    escape(IgnoreNote))
              /\ ~qualifies(stats) =>
                    /\ written = <<>>
                    /\ UNCHANGED reporterState ]_vars

\* C9: escape is a per-character substitution: its result is the
\* concatenation of the images of the characters of its input, where | gives
\* ||, ' gives a backtick, newline gives |n, CR gives |r, [ gives |[, ] gives
\* |] and any other character gives itself; no inserted | is doubled.
escapeImage(c) ==
    CASE c = "|" -> <<"|", "|">>
      [] c = "'" -> <<Backtick>>
      [] c = "\n" -> <<"|", "n">>
      [] c = "\r" -> <<"|", "r">>
      [] c = "[" -> <<"|", "[">>
      [] c = "]" -> <<"|", "]">>
      [] OTHER -> <<c>>

RECURSIVE imagesOf(_)
imagesOf(text) ==
    IF text = <<>> THEN <<>>
    ELSE escapeImage(Head(text)) \o imagesOf(Tail(text))

C9_EscapePerCharacter ==
    pureFn = "escape" => pureRes = imagesOf(pureArg)

\* escape has been applied to a text that holds '|' and characters whose
\* images hold '|'.
C9_Witness ==
    /\ pureFn = "escape"
    /\ pureArg = <<"|", "\n", "]", "'">>
    /\ pureRes = <<"|", "|", "|", "n", "|", "]", Backtick>>

\* C10: in every ##teamcity message written, the value of each of the
\* attributes name, flowId, message, details and out holds no raw apostrophe,
\* newline or carriage return.
TextAttributes == { "name", "flowId", "message", "details", "out" }

RawBreakers == { "'", "\n", "\r" }

C10_AttributesNeverBreak ==
    \A i \in 1..Len(m_stream) :
        m_stream[i].proto =>
            \A j \in 1..Len(m_stream[i].attrs) :
                m_stream[i].attrs[j][1] \in TextAttributes =>
                    \A k \in 1..Len(m_stream[i].attrs[j][2]) :
                        m_stream[i].attrs[j][2][k] \notin RawBreakers

\* A failed assertion with a quote and a newline in its expression and its
\* messages, in a section with a quote in its name, has been reported.
C10_Witness ==
    /\ lastEvent.kind = "assertionEnded"
    /\ lastEvent.arg.hasExpression
    /\ Len(m_stream) > 0
    /\ IsMessage(LastLine, {"testFailed"})
    /\ HasAttr(LastLine, "details")
    /\ openSections # <<>>
    /\ \E k \in 1..Len(Top(openSections)) : Top(openSections)[k] = "'"
    /\ m_sectionNameStack # <<>>

\* C11 as stated: normalizeNamespaceMarkers("A:::B") yields "A..B".
C11_ThreeColonsTwoDots ==
    (pureFn = "normalizeNamespaceMarkers"
     /\ pureArg = <<"A", ":", ":", ":", "B">>) =>
        pureRes = <<"A", ".", ".", "B">>

\* C11, amended: normalizeNamespaceMarkers("A:::B") yields "A.:B": of a run
\* of three colons the first two become one dot and the third stays a colon.
C11_ThreeColonsDotColon ==
    (pureFn = "normalizeNamespaceMarkers"
     /\ pureArg = <<"A", ":", ":", ":", "B">>) =>
        pureRes = <<"A", ".", ":", "B">>

\* normalizeNamespaceMarkers has been applied to "A:::B".
C11_Witness ==
    /\ pureFn = "normalizeNamespaceMarkers"
    /\ pureArg = <<"A", ":", ":", ":", "B">>
    /\ Len(pureRes) = 4

\* The text with each occurrence of "::", taken left to right and not
\* overlapping, replaced by one ".".
RECURSIVE markersReplaced(_)
markersReplaced(text) ==
    IF Len(text) >= 2 /\ text[1] = ":" /\ text[2] = ":"
    THEN <<".">> \o markersReplaced(SubSeq(text, 3, Len(text)))
    ELSE IF text = <<>> THEN <<>>
    ELSE <<Head(text)>> \o markersReplaced(Tail(text))

\* C12: for every name, normalizeNamespaceMarkers ends and yields the name
\* with each left-to-right, non-overlapping occurrence of "::" replaced by
\* one ".", and the result holds no "::".
C12_MarkersNormalized ==
    pureFn = "normalizeNamespaceMarkers" =>
        /\ pureRes = markersReplaced(pureArg)
        /\ \A i \in 1..Len(pureRes) - 1 :
               ~(pureRes[i] = ":" /\ pureRes[i + 1] = ":")

\* normalizeNamespaceMarkers has turned "::::" into "..".
C12_Witness ==
    /\ pureFn = "normalizeNamespaceMarkers"
    /\ pureArg = <<":", ":", ":", ":">>
    /\ pureRes = <<".", ".">>

\* C13: after any sequence of events the timer stack and the
\* correlation-name stack are equally long; and while the events are well
\* formed both are empty when testCaseStarting is delivered and after
\* testCaseEnded, that is whenever no test case is running.
C13_StacksInStep ==
    /\ Len(m_timerStack) = Len(m_sectionNameStack)
    /\ (wellFormed /\ (phase # "case" \/ lastEvent.kind = "testCaseStarting")) =>
           /\ m_timerStack = <<>>
           /\ m_sectionNameStack = <<>>

\* A well-formed test case in which a section was started, and no assertion
\* was made, has ended.
C13_Witness ==
    /\ wellFormed
    /\ lastEvent.kind = "testCaseEnded"
    /\ nAsserts = 0
    /\ m_headerPrintedForThisSection
    /\ m_timerStack = <<>>
    /\ m_sectionNameStack = <<>>

\* C14: right after testCaseStarting returns, the timer stack and the
\* correlation-name stack are both empty, whatever events came before, also
\* sections an earlier test case left open.
C14_TestCaseStartingResetsStacks ==
    lastEvent.kind = "testCaseStarting" =>
        /\ m_timerStack = <<>>
        /\ m_sectionNameStack = <<>>

\* C15: testCaseStarting clears the 'header printed' flag, so the first
\* qualifying assertion of a test case that comes before any section writes
\* the section header into its message, also when an earlier test case has
\* written a header or started a section.
C15_HeaderFlagCleared ==
    [][ /\ lastEvent'.kind = "testCaseStarting" =>
               ~m_headerPrintedForThisSection'
        /\ (/\ lastEvent.kind = "testCaseStarting"
            /\ lastEvent'.kind = "assertionEnded"
            /\ qualifies(lastEvent'.arg)
            /\ lastEvent'.arg.resultType \in SupportedResultTypes
            /\ status' = "running") =>
               \E k \in 1..Len(Attr(m_stream'[1], "text")) :
                   Attr(m_stream'[1], "text")[k] = "........" ]_vars

\* The tags whose original text starts with '#', by position.
hashTags(tags) ==
    { i \in 1..Len(tags) : Len(tags[i]) > 0 /\ tags[i][1] = "#" }

\* The class name part of a full name as C16 words it.
namedClass(testInfo, N) ==
    LET declared == SelectSeq(testInfo.className, LAMBDA c : c # " ")
        first    == CHOOSE i \in hashTags(testInfo.tags) :
                        \A j \in hashTags(testInfo.tags) : i <= j
        fromTag  == IF declared # <<>> THEN declared
                    ELSE IF hashTags(testInfo.tags) = {} THEN <<>>
                    ELSE Tail(testInfo.tags[first])
        orGlobal == IF fromTag # <<>> THEN fromTag
                    ELSE <<"g", "l", "o", "b", "a", "l", ".">>
        prefixed == IF N # <<>>
                    THEN N \o <<":", " ">> \o N \o <<".">> \o orGlobal
                    ELSE orGlobal
    IN  markersReplaced(prefixed)

\* C16: the full name testCaseStarting stores is escape(C + escape(name)),
\* with C the declared class name without its spaces; if that is empty, the
\* text after the '#' of the first tag that starts with '#'; if that is empty
\* too, "global."; then prefixed with N + ": " + N + "." if the configuration
\* name N is not empty; and last with its namespace markers normalized.
C16_FullName ==
    lastEvent.kind = "testCaseStarting" =>
        m_lastTestCaseFullName =
            imagesOf(namedClass(lastEvent.arg, configName)
                     \o imagesOf(lastEvent.arg.name))

\* testCaseStarting has named a test case without class name whose first
\* '#' tag is "#" alone and is followed by another '#' tag, under a
\* configuration name that holds "::".
C16_Witness ==
    /\ lastEvent.kind = "testCaseStarting"
    /\ configName = <<"c", ":", ":", "|">>
    /\ removeSpaces(lastEvent.arg.className) = <<>>
    /\ lastEvent.arg.tags = << <<"#">>, <<"#", "x">> >>
    /\ lastEvent.arg.name = <<"[", "'">>
    /\ m_lastTestCaseFullName =
           <<"c", ".", "|", "|", ":", " ", "c", ".", "|", "|", ".",
             "g", "l", "o", "b", "a", "l", ".",
             "|", "|", "|", "[", Backtick>>

\* The result kinds that denote success.
SuccessKinds == { "Ok", "Info", "Warning" }

\* C17: when an assertion that is not ok arrives with a result kind that
\* denotes success (Ok, Info, Warning), assertionEnded aborts with the
\* internal error and writes neither the 'result failed' line nor a
\* testFailed or testIgnored message.
C17_SuccessKindAborts ==
    (/\ lastEvent.kind = "assertionEnded"
     /\ ~lastEvent.arg.isOk
     /\ lastEvent.arg.resultType \in SuccessKinds) =>
        /\ status = "aborted"
        /\ m_stream = <<>>

\* A not-ok assertion of kind Warning has arrived inside a section, where
\* no header was to be printed, and the handler has aborted in its switch.
C17_Witness ==
    /\ lastEvent.kind = "assertionEnded"
    /\ ~lastEvent.arg.isOk
    /\ lastEvent.arg.resultType = "Warning"
    /\ m_sectionStack # <<>>
    /\ m_headerPrintedForThisSection
    /\ status = "aborted"

\* C18: for every section that is started and then ended, whatever its name
\* and the test case's, the name and the flowId of its testFinished message
\* are, character for character, those of its testStarted message.
C18_SectionMessagesAgree ==
    (/\ wellFormed
     /\ lastEvent.kind = "sectionEnded"
     /\ Len(m_stream) > 0
     /\ IsMessage(LastLine, {"testFinished"})) =>
        /\ Attr(LastLine, "name") = lastClosed
        /\ Attr(LastLine, "flowId") = lastClosed

\* C19: sectionEnded reads the top of the timer stack only when that stack
\* is not empty: whenever a sectionEnded event passes the test of its name,
\* and so goes on to m_timerStack.top(), the timer stack holds a timer.
C19_TimerTopOnlyWhenNonEmpty ==
    [][ (/\ lastEvent'.kind = "sectionEnded"
         /\ ~isTestCaseSection(lastEvent'.arg))
        => m_timerStack # <<>> ]_vars

\* C20: whenever assertionEnded calls printSectionHeader, that is whenever a
\* qualifying assertion arrives while the 'header printed' flag is false,
\* m_sectionStack is not empty, also for a failing assertion directly in the
\* body of a test case, in every well-formed sequence of events.
C20_HeaderHasOpenSection ==
    [][ (/\ wellFormed
         /\ lastEvent'.kind = "assertionEnded"
         /\ qualifies(lastEvent'.arg)
         /\ ~m_headerPrintedForThisSection)
        => m_sectionStack # <<>> ]_vars

====
